---- MODULE Spec2Model ----
(***************************************************************************)
(* The value-to-visitor adapters of serde/src/de/value.rs as a state       *)
(* machine.  One behaviour is one decode: an adapter is constructed from   *)
(* an in-memory value, a caller issues one decode request, the visitor     *)
(* (the environment) makes access calls of its choice and returns, and the *)
(* adapter finishes with its end check.                                    *)
(***************************************************************************)
EXTENDS Integers, Sequences, FiniteSets, TLC

\* ------------------------------------------------------------------ bounds

\* Longest raw iterator handed to SeqDeserializer::new / MapDeserializer::new.
MaxLen == 3
\* Most access calls one visitor makes on a sequence or map adapter.
MaxCalls == 5
\* Most next_element calls one visitor makes on the sequence view of a map.
MaxSeqCalls == 4
\* Most next_element calls one visitor makes on a PairVisitor.
MaxPairCalls == 3
\* Most errors built with Error::custom in one run.
MaxErrors == 2
\* Most seeds that fail during one decode.
MaxFail == 1
\* Largest length a seed passes to deserialize_seq_fixed_size / deserialize_tuple.
MaxFixedLen == 3

\* ------------------------------------------------------------------ values

\* Option<T>
None == <<>>
Some(x) == <<x>>

\* Result<T, E>
Ok(v) == [ok |-> TRUE, val |-> v]
Err(e) == [ok |-> FALSE, err |-> e]

\* ()
Unit == <<>>

\* A call that does not return: panic!(msg)
Panic(msg) == [panic |-> msg]

\* In-memory host values that have an IntoDeserializer impl.
U32(n) == [ty |-> "u32", v |-> n]
Str(s) == [ty |-> "str", v |-> s]
String(s) == [ty |-> "string", v |-> s]
Cow(s, o) == [ty |-> "cow", v |-> s, owned |-> o]
Primitive(ty, v) == [ty |-> ty, v |-> v]
UnitValue == [ty |-> "unit", v |-> Unit]

\* The types primitive_deserializer! is instantiated for, with the adapter it
\* names and the visitor method it calls for each.
PrimitiveTypes ==
    {"bool", "i8", "i16", "i32", "i64", "isize", "u8", "u16", "u64", "usize",
     "f32", "f64", "char"}

PrimitiveName(ty) ==
    CASE ty = "bool" -> "BoolDeserializer"
      [] ty = "i8" -> "I8Deserializer"
      [] ty = "i16" -> "I16Deserializer"
      [] ty = "i32" -> "I32Deserializer"
      [] ty = "i64" -> "I64Deserializer"
      [] ty = "isize" -> "IsizeDeserializer"
      [] ty = "u8" -> "U8Deserializer"
      [] ty = "u16" -> "U16Deserializer"
      [] ty = "u64" -> "U64Deserializer"
      [] ty = "usize" -> "UsizeDeserializer"
      [] ty = "f32" -> "F32Deserializer"
      [] ty = "f64" -> "F64Deserializer"
      [] ty = "char" -> "CharDeserializer"

PrimitiveMethod(ty) ==
    CASE ty = "bool" -> "visit_bool"
      [] ty = "i8" -> "visit_i8"
      [] ty = "i16" -> "visit_i16"
      [] ty = "i32" -> "visit_i32"
      [] ty = "i64" -> "visit_i64"
      [] ty = "isize" -> "visit_i64"
      [] ty = "u8" -> "visit_u8"
      [] ty = "u16" -> "visit_u16"
      [] ty = "u64" -> "visit_u64"
      [] ty = "usize" -> "visit_u64"
      [] ty = "f32" -> "visit_f32"
      [] ty = "f64" -> "visit_f64"
      [] ty = "char" -> "visit_char"

PrimitiveNames == {PrimitiveName(ty) : ty \in PrimitiveTypes}

\* `self.value as i64` of an isize and `self.value as u64` of a usize: the target
\* type is at least as wide and of the same signedness, the number is kept.  The
\* other instantiations pass self.value with no cast.
PrimitiveCast(x) == x.v

\* Values of each primitive type: the ends of the narrow types' ranges, and for
\* floats and chars their literals.
PrimitiveSamples(ty) ==
    CASE ty = "bool" -> {TRUE, FALSE}
      [] ty = "i8" -> {-128, 127}
      [] ty = "i16" -> {-32768, 32767}
      [] ty \in {"i32", "i64", "isize"} -> {-2147483647, 2147483647}
      [] ty = "u8" -> {0, 255}
      [] ty = "u16" -> {0, 65535}
      [] ty \in {"u64", "usize"} -> {0, 2147483647}
      [] ty \in {"f32", "f64"} -> {"-0.5", "1.5"}
      [] ty = "char" -> {"x", "y"}

\* Items of the iterators under test: u32 elements, (&str, u32) pairs.
SeqItems == {U32(1), U32(2)}
MapItems == {<<Str("a"), U32(1)>>, <<Str("b"), U32(2)>>}

\* Values wrapped by the adapters that decode as an enum discriminant.
U32Values == {1, 2}
StrValues == {"a", "b"}

\* The requests forward_to_deserialize_any! sends to deserialize_any in the impls
\* of U32Deserializer, StrDeserializer, StringDeserializer and CowStrDeserializer.
ForwardedScalar ==
    {"deserialize_bool", "deserialize_u8", "deserialize_u16", "deserialize_u32",
     "deserialize_u64", "deserialize_i8", "deserialize_i16", "deserialize_i32",
     "deserialize_i64", "deserialize_f32", "deserialize_f64", "deserialize_char",
     "deserialize_str", "deserialize_string", "deserialize_unit",
     "deserialize_option", "deserialize_seq", "deserialize_seq_fixed_size",
     "deserialize_bytes", "deserialize_map", "deserialize_unit_struct",
     "deserialize_newtype_struct", "deserialize_tuple_struct",
     "deserialize_struct", "deserialize_identifier", "deserialize_tuple",
     "deserialize_ignored_any", "deserialize_byte_buf"}

\* Every request of the Deserializer trait.
Requests == ForwardedScalar \cup {"deserialize_any", "deserialize_enum"}

\* Arguments callers pass to deserialize_enum and deserialize_struct.
EnumNames == {"Setting", "Color"}
NameLists == {<<>>, <<"On", "Off">>}

\* A callback made on a visitor, and the record of an access call with what it
\* returned.
Callback(v, a) == [visit |-> v, arg |-> a]
Entry(c, r) == [call |-> c, ret |-> r]

\* A raw iterator is the sequence of answers its next() gives; after the last one
\* it answers None.  A None inside the sequence is an iterator that yields again
\* after having reported the end.
RawIters(S) == UNION {[1..n -> {Some(x) : x \in S} \cup {None}] : n \in 0..MaxLen}

\* Errors.  de::Error::invalid_length(len, &exp) and the errors seeds and visitors
\* raise themselves.
InvalidLength(len, exp) == [kind |-> "invalid_length", len |-> len, exp |-> exp]
InvalidType(unexp, exp) == [kind |-> "invalid_type", unexp |-> unexp, exp |-> exp]
SeedError == [kind |-> "custom", msg |-> "seed error"]
VisitorError == [kind |-> "custom", msg |-> "visitor error"]

\* ------------------------------------------------------------ value::Error

\* The feature sets a build can have, as far as Error goes.
Builds == {"std", "collections", "none"}

\* cfg(any(feature = "std", feature = "collections"))
HasAlloc(f) == f \in {"std", "collections"}

\* Messages handed to custom(): their Display text.
ErrorMessages == {"", "missing field", "invalid length 3"}

\* <Error as de::Error>::custom(msg): msg.to_string().into_boxed_str(), or () in a
\* build without an allocator.
ErrorCustom(f, msg) ==
    IF HasAlloc(f) THEN [err |-> msg] ELSE [err |-> Unit]

\* fmt writing the placeholder in every build.
ErrorFmtPlaceholder(f, e) == "Serde deserialization error"

\* <Error as Display>::fmt
ErrorFmt(f, e) ==
    IF HasAlloc(f) THEN e.err ELSE "Serde deserialization error"

\* derive(PartialEq) on struct Error { err: ErrorImpl }
ErrorEq(a, b) == a.err = b.err

\* ------------------------------------------------------- scalar adapters

\* IntoDeserializer::into_deserializer for u32, &str, String, Cow<str>.
IntoDeserializer(x) ==
    CASE x.ty = "u32" -> [adapter |-> "U32Deserializer", value |-> x]
      [] x.ty = "str" -> [adapter |-> "StrDeserializer", value |-> x]
      [] x.ty = "string" -> [adapter |-> "StringDeserializer", value |-> x]
      [] x.ty = "cow" -> [adapter |-> "CowStrDeserializer", value |-> x]
      [] x.ty = "unit" -> [adapter |-> "UnitDeserializer", value |-> x]
      [] x.ty \in PrimitiveTypes -> [adapter |-> PrimitiveName(x.ty), value |-> x]

\* deserialize_any with a CowStrDeserializer that lends its text whether it owns it
\* or not.
DeserializeAnyCowLends(d) ==
    CASE d.adapter = "U32Deserializer" -> [visit |-> "visit_u32", arg |-> d.value.v]
      [] d.adapter = "StrDeserializer" -> [visit |-> "visit_str", arg |-> d.value.v]
      [] d.adapter = "StringDeserializer" -> [visit |-> "visit_string", arg |-> d.value.v]
      [] d.adapter = "CowStrDeserializer" -> [visit |-> "visit_str", arg |-> d.value.v]
      [] d.adapter = "UnitDeserializer" -> [visit |-> "visit_unit", arg |-> Unit]
      [] d.adapter \in PrimitiveNames ->
            [visit |-> PrimitiveMethod(d.value.ty), arg |-> PrimitiveCast(d.value)]

\* deserialize_any of the adapters that wrap one value: the one visitor callback
\* and its argument.
DeserializeAny(d) ==
    CASE d.adapter = "U32Deserializer" -> [visit |-> "visit_u32", arg |-> d.value.v]
      [] d.adapter = "StrDeserializer" -> [visit |-> "visit_str", arg |-> d.value.v]
      [] d.adapter = "StringDeserializer" -> [visit |-> "visit_string", arg |-> d.value.v]
      [] d.adapter = "CowStrDeserializer" ->
            IF d.value.owned
            THEN [visit |-> "visit_string", arg |-> d.value.v]
            ELSE [visit |-> "visit_str", arg |-> d.value.v]
      [] d.adapter = "UnitDeserializer" -> [visit |-> "visit_unit", arg |-> Unit]
      [] d.adapter \in PrimitiveNames ->
            [visit |-> PrimitiveMethod(d.value.ty), arg |-> PrimitiveCast(d.value)]

\* seed.deserialize(value.into_deserializer()) with a seed that succeeds: the seed
\* returns what its visitor was called with.
Decode(x) == DeserializeAny(IntoDeserializer(x))

\* ------------------------------------------------------------- iterators

\* A next that passes over one answer of the raw iterator for each it hands out.
FuseNextSkips(it, p, f) ==
    IF f THEN [item |-> None, pos |-> p, fused |-> TRUE]
    ELSE IF p < Len(it)
         THEN [item |-> it[p + 1], pos |-> p + 2, fused |-> it[p + 1] = None]
         ELSE [item |-> None, pos |-> p, fused |-> TRUE]

\* A next that asks the raw iterator again after it has answered None.
FuseNextResumes(it, p, f) ==
    IF p < Len(it)
    THEN [item |-> it[p + 1], pos |-> p + 1, fused |-> it[p + 1] = None]
    ELSE [item |-> None, pos |-> p, fused |-> TRUE]

\* iter::Fuse<I>::next over the raw iterator `it`, `p` answers already taken,
\* `f` the fuse's done flag.
FuseNext(it, p, f) ==
    IF f THEN [item |-> None, pos |-> p, fused |-> TRUE]
    ELSE IF p < Len(it)
         THEN [item |-> it[p + 1], pos |-> p + 1, fused |-> it[p + 1] = None]
         ELSE [item |-> None, pos |-> p, fused |-> TRUE]

\* A loop in end() that gives up after the first item it finds.
DrainOneItem(it, p, f, remaining) ==
    LET n == FuseNext(it, p, f)
    IN  [pos |-> n.pos, fused |-> n.fused,
         remaining |-> IF n.item # None THEN remaining + 1 ELSE remaining]

\* The while loop of end(): pulls until the fused iterator answers None.
RECURSIVE Drain(_, _, _, _)
Drain(it, p, f, remaining) ==
    LET n == FuseNext(it, p, f)
    IN  IF n.item # None
        THEN Drain(it, n.pos, n.fused, remaining + 1)
        ELSE [pos |-> n.pos, fused |-> n.fused, remaining |-> remaining]

ExpectedInSeq(n) ==
    IF n = 1 THEN "1 element in sequence"
    ELSE ToString(n) \o " elements in sequence"

ExpectedInMap(n) ==
    IF n = 1 THEN "1 element in map"
    ELSE ToString(n) \o " elements in map"

\* SeqDeserializer::end reporting only the drained items as the actual length.
SeqEndRemainingOnly(it, p, f, cnt) ==
    LET d == Drain(it, p, f, 0)
    IN  [pos |-> d.pos, fused |-> d.fused,
         res |-> IF d.remaining = 0
                 THEN Ok(Unit)
                 ELSE Err(InvalidLength(d.remaining, ExpectedInSeq(cnt)))]

\* SeqDeserializer::end
SeqEnd(it, p, f, cnt) ==
    LET d == Drain(it, p, f, 0)
    IN  [pos |-> d.pos, fused |-> d.fused,
         res |-> IF d.remaining = 0
                 THEN Ok(Unit)
                 ELSE Err(InvalidLength(cnt + d.remaining, ExpectedInSeq(cnt)))]

\* MapDeserializer::end wording its expectation as SeqDeserializer::end does.
MapEndSeqWording(it, p, f, cnt) ==
    LET d == Drain(it, p, f, 0)
    IN  [pos |-> d.pos, fused |-> d.fused,
         res |-> IF d.remaining = 0
                 THEN Ok(Unit)
                 ELSE Err(InvalidLength(cnt + d.remaining, ExpectedInSeq(cnt)))]

\* MapDeserializer::end
MapEnd(it, p, f, cnt) ==
    LET d == Drain(it, p, f, 0)
    IN  [pos |-> d.pos, fused |-> d.fused,
         res |-> IF d.remaining = 0
                 THEN Ok(Unit)
                 ELSE Err(InvalidLength(cnt + d.remaining, ExpectedInMap(cnt)))]

\* split handing out the pair's halves the wrong way round.
SplitSwapped(kv) == [first |-> kv[2], second |-> kv[1]]

\* private::Pair::split for (A, B)
Split(kv) == [first |-> kv[1], second |-> kv[2]]

\* ------------------------------------------------------------ enum access

\* deserialize_enum forwarded to deserialize_any like every other request.
ScalarDeserializeForwardsAll(d, m) == DeserializeAny(d)

\* A request sent to U32Deserializer, StrDeserializer, StringDeserializer or
\* CowStrDeserializer: deserialize_enum is its own method, every other request is
\* forwarded to deserialize_any.  The visitor callback made and its argument.
ScalarDeserialize(d, m) ==
    IF m = "deserialize_enum"
    THEN [visit |-> "visit_enum", arg |-> d]
    ELSE DeserializeAny(d)

\* UnitDeserializer with deserialize_option forwarded like the rest.
UnitDeserializeForwardsAll(d, m) == DeserializeAny(d)

\* A request sent to UnitDeserializer: deserialize_option is its own method, every
\* other request is forwarded to deserialize_any.
UnitDeserialize(d, m) ==
    IF m = "deserialize_option"
    THEN [visit |-> "visit_none", arg |-> Unit]
    ELSE DeserializeAny(d)

\* A primitive adapter that answers deserialize_option with visit_some(self).
PrimitiveDeserializeOption(d, m) ==
    IF m = "deserialize_option"
    THEN [visit |-> "visit_some", arg |-> d]
    ELSE DeserializeAny(d)

\* A request sent to an adapter primitive_deserializer! defines: every request is
\* forwarded to deserialize_any.
PrimitiveDeserialize(d, m) == DeserializeAny(d)

\* A request sent to an adapter that wraps one value.
Deserialize(d, m) ==
    CASE d.adapter = "UnitDeserializer" -> UnitDeserialize(d, m)
      [] d.adapter \in PrimitiveNames -> PrimitiveDeserialize(d, m)
      [] OTHER -> ScalarDeserialize(d, m)

\* private::unit_only
UnitOnlyPair(t) == <<t, "UnitOnly">>

\* EnumAccess::variant_seed of the four adapters: seed.deserialize(self) with the
\* seed sending request `m` and succeeding or not, then .map(private::unit_only).
VariantSeedResult(d, m, ok) ==
    IF ok THEN Ok(UnitOnlyPair(ScalarDeserialize(d, m))) ELSE Err(SeedError)

\* impl VariantAccess for UnitOnly.  `ran` is whether the seed or visitor handed
\* in was run; `sok` is whether it would succeed if it were.
UnitOnlyUnit == [ret |-> Ok(Unit), ran |-> FALSE]
\* deserialize_newtype_seed running the seed it is handed.
UnitOnlyNewtypeSeedRuns(sok) ==
    [ret |-> IF sok THEN Ok("newtype") ELSE Err(SeedError), ran |-> TRUE]

UnitOnlyNewtypeSeed(sok) ==
    [ret |-> Err(InvalidType("UnitVariant", "newtype variant")), ran |-> FALSE]
UnitOnlyTuple(len, sok) ==
    [ret |-> Err(InvalidType("UnitVariant", "tuple variant")), ran |-> FALSE]
UnitOnlyStruct(fields, sok) ==
    [ret |-> Err(InvalidType("UnitVariant", "struct variant")), ran |-> FALSE]

\* ------------------------------------------------------------ PairVisitor

\* next_element_seed looking at the value slot before the key slot.
PairTakeValueFirst(k, v) ==
    IF v # None THEN [item |-> v, slot |-> "value", k |-> k, v |-> None]
    ELSE IF k # None THEN [item |-> k, slot |-> "key", k |-> None, v |-> None]
    ELSE [item |-> None, slot |-> "none", k |-> None, v |-> None]

\* PairVisitor::next_element_seed: which slot is taken.
PairTake(k, v) ==
    IF k # None THEN [item |-> k, slot |-> "key", k |-> None, v |-> v]
    ELSE IF v # None THEN [item |-> v, slot |-> "value", k |-> None, v |-> None]
    ELSE [item |-> None, slot |-> "none", k |-> None, v |-> None]

\* size_hint looking at the key slot alone.
PairSizeHintIgnoresValue(k, v) ==
    IF k # None THEN 2 ELSE 0

\* size_hint answering 1 whichever slot is filled.
PairSizeHintAtMostOne(k, v) ==
    IF k # None THEN 1 ELSE IF v # None THEN 1 ELSE 0

\* PairVisitor::size_hint
PairSizeHint(k, v) ==
    IF k # None THEN 2 ELSE IF v # None THEN 1 ELSE 0

\* The rest of PairDeserializer::deserialize_seq once visit_seq returned `r`.
PairFinish(r, k, v) ==
    IF ~r.ok THEN r
    ELSE IF v = None THEN Ok(r.val)
    ELSE Err(InvalidLength(2, ExpectedInSeq(2 - PairSizeHint(k, v))))

\* A test that lets every length of two or more through.
PairAcceptsLenAtLeastTwo(len) == len >= 2

\* The test of PairDeserializer::deserialize_seq_fixed_size.
PairAcceptsLen(len) == len = 2

\* The seeds that have failed so far, as the visitors saw them.
Failed(l) == Len(SelectSeq(l, LAMBDA e : e.ret = Err(SeedError)))

\* ------------------------------------------------------------------ state

VARIABLES
    adapter,    \* the adapter under decode, by its type name
    iter,       \* the raw iterator given to SeqDeserializer::new / MapDeserializer::new
    scalar,     \* the value wrapped by a scalar adapter
    features,   \* the cargo features of the build
    req,        \* the decode request the caller issued, by its method name
    pos,        \* answers the raw iterator has given so far
    fused,      \* iter::Fuse's done flag
    count,      \* SeqDeserializer.count / MapDeserializer.count
    value,      \* MapDeserializer.value: Option<Second>
    pc,         \* where the decode stands
    visited,    \* the callbacks the adapter made on the caller's visitor
    log,        \* what the visitor's access calls returned, in call order
    pd,         \* the PairDeserializer handed to the element seed
    pk,         \* PairVisitor.0
    pv,         \* PairVisitor.1
    plog,       \* what the pair visitor's next_element calls returned
    vret,       \* what the visitor returned from visit_seq / visit_map / visit_enum
    result      \* what the decode request returned

vars == <<adapter, iter, scalar, features, req, pos, fused, count, value, pc, visited, log,
          pd, pk, pv, plog, vret, result>>

input == <<adapter, iter, scalar, features>>
iterVars == <<pos, fused, count>>
pairVars == <<pd, pk, pv, plog>>

\* The adapter as constructed: SeqDeserializer::new, MapDeserializer::new,
\* SeqAccessDeserializer::new, MapAccessDeserializer::new (`iter` then is what the
\* wrapped access answers, call by call), or into_deserializer of a value.
Init ==
    /\ \/ /\ adapter = "SeqDeserializer"
          /\ iter \in RawIters(SeqItems)
          /\ scalar = None
       \/ /\ adapter = "MapDeserializer"
          /\ iter \in RawIters(MapItems)
          /\ scalar = None
       \/ /\ adapter = "Error"
          /\ iter = <<>>
          /\ scalar = None
       \/ /\ adapter = "SeqAccessDeserializer"
          /\ iter \in RawIters(SeqItems)
          /\ scalar = None
       \/ /\ adapter = "MapAccessDeserializer"
          /\ iter \in RawIters(MapItems)
          /\ scalar = None
       \/ /\ \/ scalar \in {Some(U32(n)) : n \in U32Values}
             \/ scalar \in {Some(Str(s)) : s \in StrValues}
             \/ scalar \in {Some(String(s)) : s \in StrValues}
             \/ scalar \in {Some(Cow(s, o)) : s \in StrValues, o \in BOOLEAN}
             \/ scalar = Some(UnitValue)
             \/ \E ty \in PrimitiveTypes :
                   scalar \in {Some(Primitive(ty, v)) : v \in PrimitiveSamples(ty)}
          /\ adapter = IntoDeserializer(scalar[1]).adapter
          /\ iter = <<>>
    /\ features \in (IF adapter = "Error" THEN Builds ELSE {"std"})
    /\ req = None
    /\ pos = 0
    /\ fused = FALSE
    /\ count = 0
    /\ value = None
    /\ pc = "new"
    /\ visited = <<>>
    /\ log = <<>>
    /\ pd = None
    /\ pk = None
    /\ pv = None
    /\ plog = <<>>
    /\ vret = None
    /\ result = None

\* --------------------------------------------------------- SeqDeserializer

\* SeqDeserializer::deserialize_any up to the call of visitor.visit_seq(&mut self).
SeqDeserializeAny ==
    /\ adapter = "SeqDeserializer" /\ pc = "new"
    /\ req' = Some("deserialize_any")
    /\ visited' = Append(visited, Callback("visit_seq", "self"))
    /\ pc' = "visit_seq"
    /\ UNCHANGED <<input, iterVars, value, log, pairVars, vret, result>>

\* SeqDeserializer::next_element_seed; `ok` is whether the seed succeeds.
SeqNextElementResult(n, ok) ==
    IF n.item # None
    THEN IF ok THEN Ok(Some(Decode(n.item[1]))) ELSE Err(SeedError)
    ELSE Ok(None)

\* next_element_seed adding to count only once the seed has succeeded.
SeqNextElementCountsDecoded(ok) ==
    /\ adapter = "SeqDeserializer" /\ pc = "visit_seq"
    /\ Len(log) < MaxCalls
    /\ ok \/ Failed(log) < MaxFail
    /\ LET n == FuseNext(iter, pos, fused)
       IN  /\ pos' = n.pos
           /\ fused' = n.fused
           /\ count' = IF n.item # None /\ ok THEN count + 1 ELSE count
           /\ log' = Append(log, Entry("next_element", SeqNextElementResult(n, ok)))
    /\ UNCHANGED <<input, req, value, pc, visited, pairVars, vret, result>>

SeqNextElement(ok) ==
    /\ adapter = "SeqDeserializer" /\ pc = "visit_seq"
    /\ Len(log) < MaxCalls
    /\ ok \/ Failed(log) < MaxFail
    /\ LET n == FuseNext(iter, pos, fused)
       IN  /\ pos' = n.pos
           /\ fused' = n.fused
           /\ count' = IF n.item # None THEN count + 1 ELSE count
           /\ log' = Append(log, Entry("next_element", SeqNextElementResult(n, ok)))
    /\ UNCHANGED <<input, req, value, pc, visited, pairVars, vret, result>>

\* deserialize_any running end() before it looks at the visitor's result.
SeqFinishEndsFirst(r, it, p, f, cnt) ==
    LET e == SeqEnd(it, p, f, cnt)
    IN  [pos |-> e.pos, fused |-> e.fused,
         res |-> IF ~e.res.ok THEN e.res ELSE r]

\* deserialize_any returning end()'s unit instead of the visitor's value.
SeqFinishDropsValue(r, it, p, f, cnt) ==
    IF ~r.ok THEN [pos |-> p, fused |-> f, res |-> r]
    ELSE LET e == SeqEnd(it, p, f, cnt)
         IN  [pos |-> e.pos, fused |-> e.fused, res |-> e.res]

\* The rest of SeqDeserializer::deserialize_any: visit_seq returned `r`, then end().
SeqFinish(r, it, p, f, cnt) ==
    IF ~r.ok THEN [pos |-> p, fused |-> f, res |-> r]
    ELSE LET e == SeqEnd(it, p, f, cnt)
         IN  [pos |-> e.pos, fused |-> e.fused,
              res |-> IF e.res.ok THEN Ok(r.val) ELSE e.res]

\* The visitor returns from visit_seq: the value it built from what it was given,
\* or an error of its own.
SeqVisitReturn(ok) ==
    /\ adapter = "SeqDeserializer" /\ pc = "visit_seq"
    /\ LET r == IF ok THEN Ok(log) ELSE Err(VisitorError)
           f == SeqFinish(r, iter, pos, fused, count)
       IN  /\ vret' = Some(r)
           /\ pos' = f.pos
           /\ fused' = f.fused
           /\ result' = Some(f.res)
    /\ pc' = "done"
    /\ UNCHANGED <<input, req, count, value, visited, log, pairVars>>

\* --------------------------------------------------------- MapDeserializer

\* next_pair counting a pair without moving on in the iterator.
NextPairRepeats(it, p, f, cnt) ==
    LET n == FuseNext(it, p, f)
    IN  IF n.item # None
        THEN [pair |-> Some(Split(n.item[1])), pos |-> p, fused |-> n.fused,
              count |-> cnt + 1]
        ELSE [pair |-> None, pos |-> n.pos, fused |-> n.fused, count |-> cnt]

\* MapDeserializer::next_pair
NextPair(it, p, f, cnt) ==
    LET n == FuseNext(it, p, f)
    IN  IF n.item # None
        THEN [pair |-> Some(Split(n.item[1])), pos |-> n.pos, fused |-> n.fused,
              count |-> cnt + 1]
        ELSE [pair |-> None, pos |-> n.pos, fused |-> n.fused, count |-> cnt]

\* MapDeserializer::deserialize_any up to the call of visitor.visit_map(&mut self).
MapDeserializeAny ==
    /\ adapter = "MapDeserializer" /\ pc = "new"
    /\ req' = Some("deserialize_any")
    /\ visited' = Append(visited, Callback("visit_map", "self"))
    /\ pc' = "visit_map"
    /\ UNCHANGED <<input, iterVars, value, log, pairVars, vret, result>>

\* MapDeserializer::deserialize_seq up to the call of visitor.visit_seq(&mut self).
MapDeserializeSeq ==
    /\ adapter = "MapDeserializer" /\ pc = "new"
    /\ req' = Some("deserialize_seq")
    /\ visited' = Append(visited, Callback("visit_seq", "self"))
    /\ pc' = "visit_seq"
    /\ UNCHANGED <<input, iterVars, value, log, pairVars, vret, result>>

\* deserialize_seq_fixed_size refusing a length of 0 before it calls the visitor.
MapDeserializeSeqFixedSizeEnforced(len) ==
    /\ adapter = "MapDeserializer" /\ pc = "new"
    /\ req' = Some("deserialize_seq_fixed_size")
    /\ IF len = 0
       THEN /\ visited' = visited
            /\ pc' = "done"
            /\ result' = Some(Err(InvalidLength(0, ExpectedInSeq(len))))
       ELSE /\ visited' = Append(visited, Callback("visit_seq", "self"))
            /\ pc' = "visit_seq"
            /\ result' = result
    /\ UNCHANGED <<input, iterVars, value, log, pairVars, vret>>

\* MapDeserializer::deserialize_seq_fixed_size: self.deserialize_seq(visitor).
MapDeserializeSeqFixedSize(len) ==
    /\ adapter = "MapDeserializer" /\ pc = "new"
    /\ req' = Some("deserialize_seq_fixed_size")
    /\ visited' = Append(visited, Callback("visit_seq", "self"))
    /\ pc' = "visit_seq"
    /\ UNCHANGED <<input, iterVars, value, log, pairVars, vret, result>>

\* MapAccess::next_key_seed
MapNextKeyResult(n, ok) ==
    IF n.pair # None
    THEN IF ok THEN Ok(Some(Decode(n.pair[1].first))) ELSE Err(SeedError)
    ELSE Ok(None)

\* next_key_seed caching the value only once the key seed has succeeded.
MapNextKeyCachesDecoded(ok) ==
    /\ adapter = "MapDeserializer" /\ pc = "visit_map"
    /\ Len(log) < MaxCalls
    /\ ok \/ Failed(log) < MaxFail
    /\ LET n == NextPair(iter, pos, fused, count)
       IN  /\ pos' = n.pos
           /\ fused' = n.fused
           /\ count' = n.count
           /\ value' = IF n.pair # None /\ ok THEN Some(n.pair[1].second) ELSE value
           /\ log' = Append(log, Entry("next_key", MapNextKeyResult(n, ok)))
    /\ UNCHANGED <<input, req, pc, visited, pairVars, vret, result>>

MapNextKey(ok) ==
    /\ adapter = "MapDeserializer" /\ pc = "visit_map"
    /\ Len(log) < MaxCalls
    /\ ok \/ Failed(log) < MaxFail
    /\ LET n == NextPair(iter, pos, fused, count)
       IN  /\ pos' = n.pos
           /\ fused' = n.fused
           /\ count' = n.count
           /\ value' = IF n.pair # None THEN Some(n.pair[1].second) ELSE value
           /\ log' = Append(log, Entry("next_key", MapNextKeyResult(n, ok)))
    /\ UNCHANGED <<input, req, pc, visited, pairVars, vret, result>>

\* next_value_seed reporting an empty slot as an error of the data.
MapNextValueResultErr(slot, ok) ==
    IF slot = None
    THEN Err([kind |-> "custom", msg |-> "value is missing"])
    ELSE IF ok THEN Ok(Decode(slot[1])) ELSE Err(SeedError)

\* MapAccess::next_value_seed: take() the slot, expect() it, decode it.
MapNextValueResult(slot, ok) ==
    IF slot = None
    THEN Panic("MapAccess::visit_value called before visit_key")
    ELSE IF ok THEN Ok(Decode(slot[1])) ELSE Err(SeedError)

MapNextValue(ok) ==
    /\ adapter = "MapDeserializer" /\ pc = "visit_map"
    /\ Len(log) < MaxCalls
    /\ ok \/ Failed(log) < MaxFail
    /\ value' = None
    /\ LET r == MapNextValueResult(value, ok)
       IN  /\ log' = Append(log, Entry("next_value", r))
           /\ pc' = IF "panic" \in DOMAIN r THEN "panic" ELSE pc
    /\ UNCHANGED <<input, req, iterVars, visited, pairVars, vret, result>>

\* MapAccess::next_entry_seed; `kok`, `vok`: whether the key and the value seed
\* succeed.
MapNextEntryResult(n, kok, vok) ==
    IF n.pair = None THEN Ok(None)
    ELSE IF ~kok THEN Err(SeedError)
    ELSE IF ~vok THEN Err(SeedError)
    ELSE Ok(Some(<<Decode(n.pair[1].first), Decode(n.pair[1].second)>>))

\* next_entry_seed parking the pair's value in the slot as next_key_seed does.
MapNextEntryCachesValue(kok, vok) ==
    /\ adapter = "MapDeserializer" /\ pc = "visit_map"
    /\ Len(log) < MaxCalls
    /\ (kok /\ vok) \/ Failed(log) < MaxFail
    /\ LET n == NextPair(iter, pos, fused, count)
       IN  /\ pos' = n.pos
           /\ fused' = n.fused
           /\ count' = n.count
           /\ value' = IF n.pair # None THEN Some(n.pair[1].second) ELSE value
           /\ log' = Append(log, Entry("next_entry", MapNextEntryResult(n, kok, vok)))
    /\ UNCHANGED <<input, req, pc, visited, pairVars, vret, result>>

MapNextEntry(kok, vok) ==
    /\ adapter = "MapDeserializer" /\ pc = "visit_map"
    /\ Len(log) < MaxCalls
    /\ (kok /\ vok) \/ Failed(log) < MaxFail
    /\ LET n == NextPair(iter, pos, fused, count)
       IN  /\ pos' = n.pos
           /\ fused' = n.fused
           /\ count' = n.count
           /\ log' = Append(log, Entry("next_entry", MapNextEntryResult(n, kok, vok)))
    /\ UNCHANGED <<input, req, value, pc, visited, pairVars, vret, result>>

\* impl SeqAccess for MapDeserializer: next_element_seed up to seed.deserialize(de).
\* With a pair pulled, the seed is handed PairDeserializer(k, v, PhantomData).
MapSeqNextElement ==
    /\ adapter = "MapDeserializer" /\ pc = "visit_seq"
    /\ Len(log) < MaxSeqCalls
    /\ LET n == NextPair(iter, pos, fused, count)
       IN  /\ pos' = n.pos
           /\ fused' = n.fused
           /\ count' = n.count
           /\ IF n.pair # None
              THEN /\ pd' = n.pair
                   /\ pc' = "seed"
                   /\ log' = log
              ELSE /\ pd' = pd
                   /\ pc' = pc
                   /\ log' = Append(log, Entry("next_element", Ok(None)))
    /\ UNCHANGED <<input, req, value, visited, pk, pv, plog, vret, result>>

\* The rest of deserialize_any / deserialize_seq: the visitor returned `r`, then
\* end().
MapFinish(r, it, p, f, cnt) ==
    IF ~r.ok THEN [pos |-> p, fused |-> f, res |-> r]
    ELSE LET e == MapEnd(it, p, f, cnt)
         IN  [pos |-> e.pos, fused |-> e.fused,
              res |-> IF e.res.ok THEN Ok(r.val) ELSE e.res]

\* The return from visit_map / visit_seq with an end check that also refuses a
\* value left in the slot.
MapVisitReturnChecksSlot(ok) ==
    /\ adapter = "MapDeserializer" /\ pc \in {"visit_map", "visit_seq"}
    /\ LET r == IF ok THEN Ok(log) ELSE Err(VisitorError)
           f == MapFinish(r, iter, pos, fused, count)
       IN  /\ vret' = Some(r)
           /\ pos' = f.pos
           /\ fused' = f.fused
           /\ result' = IF f.res.ok /\ value # None
                        THEN Some(Err(InvalidLength(count, ExpectedInMap(count))))
                        ELSE Some(f.res)
    /\ pc' = "done"
    /\ UNCHANGED <<input, req, count, value, visited, log, pairVars>>

\* The visitor returns from visit_map / visit_seq.
MapVisitReturn(ok) ==
    /\ adapter = "MapDeserializer" /\ pc \in {"visit_map", "visit_seq"}
    /\ LET r == IF ok THEN Ok(log) ELSE Err(VisitorError)
           f == MapFinish(r, iter, pos, fused, count)
       IN  /\ vret' = Some(r)
           /\ pos' = f.pos
           /\ fused' = f.fused
           /\ result' = Some(f.res)
    /\ pc' = "done"
    /\ UNCHANGED <<input, req, count, value, visited, log, pairVars>>

\* -------------------------------------------------------- PairDeserializer

\* The element seed's result is next_element_seed's: seed.deserialize(de).map(Some).
ElementResult(r) == IF r.ok THEN Ok(Some(r.val)) ELSE r

\* PairDeserializer::deserialize_seq up to visitor.visit_seq(&mut pair_visitor);
\* deserialize_any and the forwarded requests arrive here too.
PairDeserializeSeq ==
    /\ pc = "seed"
    /\ pk' = Some(pd[1].first)
    /\ pv' = Some(pd[1].second)
    /\ pd' = None
    /\ plog' = <<>>
    /\ pc' = "pair_visit"
    /\ UNCHANGED <<input, req, iterVars, value, visited, log, vret, result>>

\* PairDeserializer::deserialize_seq_fixed_size
PairDeserializeSeqFixedSize(len) ==
    /\ pc = "seed"
    /\ IF PairAcceptsLen(len)
       THEN /\ pk' = Some(pd[1].first)
            /\ pv' = Some(pd[1].second)
            /\ pc' = "pair_visit"
            /\ log' = log
       ELSE /\ pk' = None
            /\ pv' = None
            /\ pc' = "visit_seq"
            /\ log' = Append(log, Entry("next_element",
                          ElementResult(Err(InvalidLength(2, ExpectedInSeq(len))))))
    /\ pd' = None
    /\ plog' = <<>>
    /\ UNCHANGED <<input, req, iterVars, value, visited, vret, result>>

\* PairVisitor::next_element_seed
PairNextElementResult(t, ok) ==
    IF t.item # None
    THEN IF ok THEN Ok(Some(Decode(t.item[1]))) ELSE Err(SeedError)
    ELSE Ok(None)

PairNextElement(ok) ==
    /\ pc = "pair_visit"
    /\ Len(plog) < MaxPairCalls
    /\ ok \/ Failed(log) + Failed(plog) < MaxFail
    /\ LET t == PairTake(pk, pv)
       IN  /\ pk' = t.k
           /\ pv' = t.v
           /\ plog' = Append(plog, [call |-> "next_element", slot |-> t.slot,
                                    ret |-> PairNextElementResult(t, ok)])
    /\ UNCHANGED <<input, req, iterVars, value, pc, visited, log, pd, vret, result>>

\* What a visitor builds from a pair: the elements it was given, in order.
Obtained(l) ==
    LET got == SelectSeq(l, LAMBDA e : e.ret.ok /\ e.ret.val # None)
    IN  [i \in 1..Len(got) |-> got[i].ret.val[1]]

\* The pair visitor returns from visit_seq; deserialize_seq finishes, the element
\* seed returns its result and next_element_seed of the map wraps it.  pk and pv
\* stay as pair_visitor was when it went out of scope.
PairVisitReturn(ok) ==
    /\ pc = "pair_visit"
    /\ LET r == IF ok THEN Ok(Obtained(plog)) ELSE Err(VisitorError)
       IN  log' = Append(log, Entry("next_element", ElementResult(PairFinish(r, pk, pv))))
    /\ plog' = <<>>
    /\ pc' = "visit_seq"
    /\ UNCHANGED <<input, req, iterVars, value, visited, pd, pk, pv, vret, result>>

\* ------------------------------------------------ enum discriminant adapters

IsScalarAdapter ==
    adapter \in {"U32Deserializer", "StrDeserializer", "StringDeserializer",
                 "CowStrDeserializer"}

\* deserialize_enum of the four adapters: visitor.visit_enum(self).
DeserializeEnum(name, variants) ==
    /\ IsScalarAdapter /\ pc = "new"
    /\ req' = Some("deserialize_enum")
    /\ visited' = Append(visited, ScalarDeserialize(IntoDeserializer(scalar[1]),
                                                    "deserialize_enum"))
    /\ pc' = "visit_enum"
    /\ UNCHANGED <<input, iterVars, value, log, pairVars, vret, result>>

\* The visitor calls variant_seed on the enum access it was given; the seed sends
\* request `m` to the adapter.
VariantSeed(m, ok) ==
    /\ IsScalarAdapter /\ pc = "visit_enum"
    /\ LET r == VariantSeedResult(visited[1].arg, m, ok)
       IN  /\ log' = Append(log, [call |-> "variant_seed", request |-> m, ret |-> r])
           /\ pc' = IF r.ok THEN "variant" ELSE "visit_enum_rest"
    /\ UNCHANGED <<input, req, iterVars, value, visited, pairVars, vret, result>>

\* The visitor calls one method of the UnitOnly variant access it holds.
UnitOnlyCall(c, r) ==
    /\ IsScalarAdapter /\ pc = "variant"
    /\ log' = Append(log, [call |-> c, ret |-> r.ret, ran |-> r.ran])
    /\ pc' = "visit_enum_rest"
    /\ UNCHANGED <<input, req, iterVars, value, visited, pairVars, vret, result>>

UnitOnlyDeserializeUnit == UnitOnlyCall("deserialize_unit", UnitOnlyUnit)

UnitOnlyDeserializeNewtypeSeed(sok) ==
    UnitOnlyCall("deserialize_newtype_seed", UnitOnlyNewtypeSeed(sok))

UnitOnlyDeserializeTuple(len, sok) ==
    UnitOnlyCall("deserialize_tuple", UnitOnlyTuple(len, sok))

UnitOnlyDeserializeStruct(fields, sok) ==
    UnitOnlyCall("deserialize_struct", UnitOnlyStruct(fields, sok))

\* The visitor returns from visit_enum; deserialize_enum returns that result.
EnumVisitReturn(ok) ==
    /\ IsScalarAdapter /\ pc \in {"visit_enum", "variant", "visit_enum_rest"}
    /\ LET r == IF ok THEN Ok(log) ELSE Err(VisitorError)
       IN  /\ vret' = Some(r)
           /\ result' = Some(r)
    /\ pc' = "done"
    /\ UNCHANGED <<input, req, iterVars, value, visited, log, pairVars>>

\* ------------------------------------------------- adapters of one value

IsValueAdapter ==
    \/ IsScalarAdapter
    \/ adapter = "UnitDeserializer"
    \/ adapter \in PrimitiveNames

\* A caller sends request `m` to the adapter: the adapter calls the visitor.
ValueDeserialize(m) ==
    /\ pc = "new" /\ IsValueAdapter
    /\ req' = Some(m)
    /\ visited' = Append(visited, Deserialize(IntoDeserializer(scalar[1]), m))
    /\ pc' = "visit"
    /\ UNCHANGED <<input, iterVars, value, log, pairVars, vret, result>>

\* The visitor returns from the callback; the adapter returns that result.
ValueVisitReturn(ok) ==
    /\ pc = "visit" /\ IsValueAdapter
    /\ LET r == IF ok THEN Ok(visited) ELSE Err(VisitorError)
       IN  /\ vret' = Some(r)
           /\ result' = Some(r)
    /\ pc' = "done"
    /\ UNCHANGED <<input, req, iterVars, value, visited, log, pairVars>>

\* ------------------------- SeqAccessDeserializer, MapAccessDeserializer

IsAccessAdapter == adapter \in {"SeqAccessDeserializer", "MapAccessDeserializer"}

\* deserialize_any of the two: visitor.visit_seq(self.seq), visitor.visit_map(self.map).
AccessDeserializeAny(a) ==
    IF a = "SeqAccessDeserializer"
    THEN [visit |-> "visit_seq", arg |-> "self.seq"]
    ELSE [visit |-> "visit_map", arg |-> "self.map"]

\* The rest of deserialize_any with the visitor's result `r`, the wrapped access
\* having given `p` of its answers `it`.
AccessFinishEnds(r, it, p) ==
    IF r.ok /\ p < Len(it)
    THEN Err(InvalidLength(Len(it), ExpectedInSeq(p)))
    ELSE r

AccessFinish(r, it, p) == r

\* A caller sends request `m`; every request is forwarded to deserialize_any.
AccessDeserialize(m) ==
    /\ pc = "new" /\ IsAccessAdapter
    /\ req' = Some(m)
    /\ visited' = Append(visited, AccessDeserializeAny(adapter))
    /\ pc' = "visit_access"
    /\ UNCHANGED <<input, iterVars, value, log, pairVars, vret, result>>

\* The visitor asks the wrapped access for its next answer; the adapter has no
\* part in the call.
AccessNext ==
    /\ pc = "visit_access" /\ IsAccessAdapter
    /\ Len(log) < MaxCalls
    /\ IF pos < Len(iter)
       THEN /\ pos' = pos + 1
            /\ log' = Append(log, Entry("next", Ok(iter[pos + 1])))
       ELSE /\ pos' = pos
            /\ log' = Append(log, Entry("next", Ok(None)))
    /\ UNCHANGED <<input, req, fused, count, value, pc, visited, pairVars, vret, result>>

\* The visitor returns; the adapter returns its result.
AccessVisitReturn(ok) ==
    /\ pc = "visit_access" /\ IsAccessAdapter
    /\ LET r == IF ok THEN Ok(log) ELSE Err(VisitorError)
       IN  /\ vret' = Some(r)
           /\ result' = Some(AccessFinish(r, iter, pos))
    /\ pc' = "done"
    /\ UNCHANGED <<input, req, iterVars, value, visited, log, pairVars>>

\* ------------------------------------------------------- Error in use

\* Error::custom(msg) is called; the error built is kept.
ErrorNew(msg) ==
    /\ adapter = "Error"
    /\ Len(log) < MaxErrors
    /\ log' = Append(log, [call |-> "custom", msg |-> msg,
                           ret |-> ErrorCustom(features, msg)])
    /\ UNCHANGED <<input, req, iterVars, value, pc, visited, pairVars, vret, result>>

\* The i-th error built is displayed.
ErrorDisplay(i) ==
    /\ adapter = "Error"
    /\ i \in 1..Len(log)
    /\ result' = Some([call |-> "fmt", of |-> i, ret |-> ErrorFmt(features, log[i].ret)])
    /\ UNCHANGED <<input, req, iterVars, value, pc, visited, log, pairVars, vret>>

\* The i-th and the j-th error built are compared with ==.
ErrorCompare(i, j) ==
    /\ adapter = "Error"
    /\ i \in 1..Len(log) /\ j \in 1..Len(log)
    /\ result' = Some([call |-> "eq", a |-> i, b |-> j,
                       ret |-> ErrorEq(log[i].ret, log[j].ret)])
    /\ UNCHANGED <<input, req, iterVars, value, pc, visited, log, pairVars, vret>>

\* ------------------------------------------------------------ specification

FixedLens == 0..MaxFixedLen

\* A decode of a SeqDeserializer.
NextSeq ==
    \/ SeqDeserializeAny
    \/ \E ok \in BOOLEAN : SeqNextElement(ok)
    \/ \E ok \in BOOLEAN : SeqVisitReturn(ok)

\* A decode of a MapDeserializer as a map.
NextMap ==
    \/ MapDeserializeAny
    \/ \E ok \in BOOLEAN : MapNextKey(ok)
    \/ \E ok \in BOOLEAN : MapNextValue(ok)
    \/ \E kok, vok \in BOOLEAN : MapNextEntry(kok, vok)
    \/ \E ok \in BOOLEAN : MapVisitReturn(ok)

\* A decode of a MapDeserializer as a sequence of pairs.
NextMapSeq ==
    \/ MapDeserializeSeq
    \/ \E len \in FixedLens : MapDeserializeSeqFixedSize(len)
    \/ MapSeqNextElement
    \/ \E ok \in BOOLEAN : MapVisitReturn(ok)
    \/ PairDeserializeSeq
    \/ \E len \in FixedLens : PairDeserializeSeqFixedSize(len)
    \/ \E ok \in BOOLEAN : PairNextElement(ok)
    \/ \E ok \in BOOLEAN : PairVisitReturn(ok)

\* A decode of a u32, &str, String or Cow<str> as an enum discriminant.
NextEnum ==
    \/ \E name \in EnumNames, variants \in NameLists : DeserializeEnum(name, variants)
    \/ \E m \in Requests, ok \in BOOLEAN : VariantSeed(m, ok)
    \/ UnitOnlyDeserializeUnit
    \/ \E sok \in BOOLEAN : UnitOnlyDeserializeNewtypeSeed(sok)
    \/ \E len \in FixedLens, sok \in BOOLEAN : UnitOnlyDeserializeTuple(len, sok)
    \/ \E fields \in NameLists, sok \in BOOLEAN : UnitOnlyDeserializeStruct(fields, sok)
    \/ \E ok \in BOOLEAN : EnumVisitReturn(ok)

\* One request to a unit, primitive, u32 or string adapter.
NextValue ==
    \/ \E m \in Requests : ValueDeserialize(m)
    \/ \E ok \in BOOLEAN : ValueVisitReturn(ok)

\* One request to a SeqAccessDeserializer or MapAccessDeserializer.
NextAccess ==
    \/ \E m \in Requests : AccessDeserialize(m)
    \/ AccessNext
    \/ \E ok \in BOOLEAN : AccessVisitReturn(ok)

\* Errors are built, displayed and compared.
NextError ==
    \/ \E msg \in ErrorMessages : ErrorNew(msg)
    \/ \E i \in 1..MaxErrors : ErrorDisplay(i)
    \/ \E i, j \in 1..MaxErrors : ErrorCompare(i, j)

Next ==
    NextSeq \/ NextMap \/ NextMapSeq \/ NextEnum \/ NextValue \/ NextAccess \/ NextError

Spec == Init /\ [][Next]_vars

InitSeq == Init /\ adapter = "SeqDeserializer"
InitMap == Init /\ adapter = "MapDeserializer"
InitContainer == Init /\ adapter \in {"SeqDeserializer", "MapDeserializer"}
InitEnum == Init /\ IsScalarAdapter
InitValue == Init /\ IsValueAdapter
InitAccess == Init /\ IsAccessAdapter
InitError == Init /\ adapter = "Error"

SpecSeq == InitSeq /\ [][NextSeq]_vars
SpecMap == InitMap /\ [][NextMap]_vars
SpecMapSeq == InitMap /\ [][NextMapSeq]_vars
\* A decode of a SeqDeserializer, or of a MapDeserializer in either mode.
NextContainer == NextSeq \/ NextMap \/ NextMapSeq
SpecContainer == InitContainer /\ [][NextContainer]_vars
\* deserialize_any of a SeqDeserializer or a MapDeserializer run to its end: the
\* calls are synchronous, so a decode that can take a step takes it; the visitor
\* makes at most MaxCalls access calls and then returns.
InitAny == Init /\ adapter \in {"SeqDeserializer", "MapDeserializer"}
NextAny == NextSeq \/ NextMap
SpecAny == InitAny /\ [][NextAny]_vars /\ WF_vars(NextAny)
SpecEnum == InitEnum /\ [][NextEnum]_vars
SpecValue == InitValue /\ [][NextValue]_vars
SpecAccess == InitAccess /\ [][NextAccess]_vars
SpecError == InitError /\ [][NextError]_vars

\* ------------------------------------------------------------------ claims

Last(l) == l[Len(l)]

\* The items the fused iterator yields: the raw answers before the first None.
Total(it) ==
    IF \E i \in 1..Len(it) : it[i] = None
    THEN (CHOOSE i \in 1..Len(it) : it[i] = None /\ \A j \in 1..(i - 1) : it[j] # None) - 1
    ELSE Len(it)
Item(it, j) == it[j][1]

\* The calls among the first `i` of `l` that obtained an item from the iterator:
\* those that did not report the end of the data.
Pulls == {"next_element", "next_key", "next_entry"}
Fetched(l, i) ==
    Cardinality({j \in 1..i : l[j].call \in Pulls /\ l[j].ret # Ok(None)})

\* The wording of the expected length in a length error.
ElementsIn(k, noun) ==
    CASE k = 0 -> "0 elements in " \o noun
      [] k = 1 -> "1 element in " \o noun
      [] k = 2 -> "2 elements in " \o noun
      [] k = 3 -> "3 elements in " \o noun
      [] OTHER -> ToString(k) \o " elements in " \o noun

\* What the seed's visitor is called with for a u32 and for a &str.
VisitU32(x) == [visit |-> "visit_u32", arg |-> x.v]
VisitStr(x) == [visit |-> "visit_str", arg |-> x.v]

\* C1: a visitor that fetches every one of the N items of a SeqDeserializer and
\* returns a value makes deserialize_any succeed with that same value: the end
\* check finds nothing left and raises no length error.
C1_SeqExactSucceeds ==
    (adapter = "SeqDeserializer" /\ pc = "done" /\ vret[1].ok
        /\ Fetched(log, Len(log)) = Total(iter))
    => result = Some(Ok(vret[1].val))

C1_Witness ==
    /\ adapter = "SeqDeserializer" /\ pc = "done" /\ vret[1].ok
    /\ Total(iter) = 3 /\ Fetched(log, Len(log)) = 3
    /\ result[1].ok

\* C2: a visitor that fetches k < N items of a SeqDeserializer and returns a value
\* makes deserialize_any fail with invalid length N, expected "1 element in
\* sequence" for k = 1 and "k elements in sequence" otherwise.
C2_SeqShortFails ==
    (adapter = "SeqDeserializer" /\ pc = "done" /\ vret[1].ok
        /\ Fetched(log, Len(log)) < Total(iter))
    => result = Some(Err(InvalidLength(Total(iter),
                                       ElementsIn(Fetched(log, Len(log)), "sequence"))))

C2_Witness ==
    /\ adapter = "SeqDeserializer" /\ pc = "done" /\ vret[1].ok
    /\ Total(iter) = 3 /\ Fetched(log, Len(log)) = 2
    /\ ~result[1].ok
    /\ result[1].err.len = 3
    /\ result[1].err.exp = "2 elements in sequence"

\* ---- map mode

IsPanic(r) == "panic" \in DOMAIN r

\* The visitor strictly alternates next_key and next_value, and stops at the first
\* next_key that reports the end of the data.
Alternates(l) ==
    \A i \in 1..Len(l) :
        /\ l[i].call = (IF i % 2 = 1 THEN "next_key" ELSE "next_value")
        /\ (l[i].call = "next_key" /\ l[i].ret = Ok(None)) => i = Len(l)

\* The key of round `r` is the key of the r-th pair.
KeyOfRound(e, it, r) ==
    /\ r <= Total(it)
    /\ e.ret.ok =>
          /\ e.ret.val # None
          /\ e.ret.val[1].visit = "visit_str"
          /\ e.ret.val[1].arg = Item(it, r)[1].v

\* The value of round `r` is the value of the r-th pair.
ValueOfRound(e, it, r) ==
    /\ ~IsPanic(e.ret)
    /\ e.ret.ok =>
          /\ e.ret.val.visit = "visit_u32"
          /\ e.ret.val.arg = Item(it, r)[2].v

\* C3: in map mode a visitor that strictly alternates next_key and next_value until
\* next_key returns None receives at the i-th round the key and the value of the
\* i-th pair of the iterator, next_key returns None only after all N pairs, and
\* deserialize_any then succeeds with the visitor's result.
C3_MapAlternation ==
    (adapter = "MapDeserializer" /\ req = Some("deserialize_any") /\ Alternates(log))
    => /\ \A i \in 1..Len(log) :
            LET r == (i + 1) \div 2
            IN  IF i % 2 = 1
                THEN IF log[i].ret = Ok(None)
                     THEN r = Total(iter) + 1
                     ELSE KeyOfRound(log[i], iter, r)
                ELSE ValueOfRound(log[i], iter, r)
       /\ (pc = "done" /\ vret[1].ok /\ Len(log) > 0 /\ Last(log).ret = Ok(None))
            => result = Some(Ok(vret[1].val))

C3_Witness ==
    /\ adapter = "MapDeserializer" /\ pc = "done" /\ Alternates(log)
    /\ Total(iter) = 2 /\ Len(log) = 5
    /\ \A i \in 1..5 : log[i].ret.ok
    /\ Item(iter, 1) # Item(iter, 2)
    /\ log[5].ret = Ok(None)
    /\ result = Some(Ok(log))

\* The index of the last next_value among the first `i - 1` calls, 0 if none.
LastValueBefore(l, i) ==
    IF \E j \in 1..(i - 1) : l[j].call = "next_value"
    THEN CHOOSE j \in 1..(i - 1) :
            /\ l[j].call = "next_value"
            /\ \A h \in (j + 1)..(i - 1) : l[h].call # "next_value"
    ELSE 0

\* The index of the last next_key among the first `i - 1` calls, 0 if none.
LastKeyBefore(l, i) ==
    IF \E j \in 1..(i - 1) : l[j].call = "next_key"
    THEN CHOOSE j \in 1..(i - 1) :
            /\ l[j].call = "next_key"
            /\ \A h \in (j + 1)..(i - 1) : l[h].call # "next_key"
    ELSE 0

\* Before call `i`: no next_key has returned a key since construction or since the
\* last next_value, or the last next_key returned None.
NoKeyReturned(l, i) ==
    \/ ~\E j \in (LastValueBefore(l, i) + 1)..(i - 1) :
            /\ l[j].call = "next_key"
            /\ l[j].ret.ok
            /\ l[j].ret.val # None
    \/ /\ LastKeyBefore(l, i) > 0
       /\ l[LastKeyBefore(l, i)].ret = Ok(None)

\* Before call `i`: a next_key has pulled a pair from the iterator since
\* construction or since the last next_value, whatever became of its key.
PairPulled(l, i) ==
    \E j \in (LastValueBefore(l, i) + 1)..(i - 1) :
        /\ l[j].call = "next_key"
        /\ l[j].ret # Ok(None)

\* C4 as stated: next_value panics when no next_key has returned a key since
\* construction or since the last next_value, or when the last next_key returned
\* None, and does not panic otherwise.
C4_PanicsIffNoKeyReturned ==
    \A i \in 1..Len(log) :
        log[i].call = "next_value"
        => (IsPanic(log[i].ret) <=> NoKeyReturned(log, i))

\* C4: next_value panics, and never returns Err, exactly when the value slot is
\* empty; the slot is empty exactly when no next_key has pulled a pair from the
\* iterator since construction or since the last next_value.  A next_key whose key
\* seed failed, and a next_key that returned None after an earlier one returned a
\* key, leave the slot filled.
C4_PanicsIffSlotEmpty ==
    adapter = "MapDeserializer"
    => /\ \A i \in 1..Len(log) :
            log[i].call = "next_value"
            => (IsPanic(log[i].ret) <=> ~PairPulled(log, i))
       /\ pc = "visit_map" => (value = None <=> ~PairPulled(log, Len(log) + 1))
       /\ pc = "panic" <=> (Len(log) > 0 /\ IsPanic(Last(log).ret))

C4_Witness ==
    /\ adapter = "MapDeserializer" /\ pc = "panic" /\ Len(log) = 4
    /\ log[1].call = "next_key" /\ log[1].ret.ok /\ log[1].ret # Ok(None)
    /\ log[2].call = "next_key" /\ log[2].ret = Ok(None)
    /\ log[3].call = "next_value" /\ log[3].ret.ok
    /\ log[4].call = "next_value" /\ IsPanic(log[4].ret)

\* C5: a visitor that fetches k of the N entries of a MapDeserializer in map mode
\* and returns a value makes deserialize_any fail, for k < N, with invalid length
\* N, expected "1 element in map" for k = 1 and "k elements in map" otherwise, and
\* succeed with the visitor's value for k = N.
C5_MapEndCheck ==
    (adapter = "MapDeserializer" /\ req = Some("deserialize_any")
        /\ pc = "done" /\ vret[1].ok)
    => LET k == Fetched(log, Len(log))
       IN  /\ k <= Total(iter)
           /\ result = IF k < Total(iter)
                       THEN Some(Err(InvalidLength(Total(iter), ElementsIn(k, "map"))))
                       ELSE Some(Ok(vret[1].val))

C5_Witness ==
    /\ adapter = "MapDeserializer" /\ req = Some("deserialize_any")
    /\ pc = "done" /\ vret[1].ok
    /\ Total(iter) = 3 /\ Fetched(log, Len(log)) = 1
    /\ ~result[1].ok
    /\ result[1].err.len = 3
    /\ result[1].err.exp = "1 element in map"

\* ---- sequence mode of the map, and the pair adapter

SeqMode == req \in {Some("deserialize_seq"), Some("deserialize_seq_fixed_size")}

\* The next_element calls among the first `i` that returned Some.
Elements(l, i) ==
    Cardinality({j \in 1..i : l[j].ret.ok /\ l[j].ret.val # None})

AllOk(l) == \A i \in 1..Len(l) : l[i].ret.ok

\* `x`, what a visitor built from one element, holds the halves of the pair `kv`.
PairElement(x, kv) ==
    /\ Len(x) <= 2
    /\ Len(x) = 2 =>
          /\ x[1].visit = "visit_str" /\ x[1].arg = kv[1].v
          /\ x[2].visit = "visit_u32" /\ x[2].arg = kv[2].v

\* C6 as stated: a visitor that reads the sequence view of a map of N pairs to its
\* end is returned Some by next_element exactly 2 * N times.
C6_TwoElementsPerPair ==
    (adapter = "MapDeserializer" /\ req = Some("deserialize_seq")
        /\ Len(log) > 0 /\ AllOk(log) /\ Last(log).ret = Ok(None))
    => Elements(log, Len(log)) = 2 * Total(iter)

\* C6: decoding a MapDeserializer of N pairs in sequence mode presents N elements,
\* one per pair in iterator order; each element is a pair adapter, which yields the
\* key and then the value of that pair.  next_element returns None only after all
\* N pairs, so a visitor that reads to the end is returned Some exactly N times.
C6_OneElementPerPair ==
    (adapter = "MapDeserializer" /\ SeqMode)
    => /\ \A i \in 1..Len(log) :
            LET j == Fetched(log, i)
            IN  IF log[i].ret = Ok(None)
                THEN j = Total(iter)
                ELSE /\ j <= Total(iter)
                     /\ log[i].ret.ok => PairElement(log[i].ret.val[1], Item(iter, j))
       /\ (Len(log) > 0 /\ AllOk(log) /\ Last(log).ret = Ok(None))
            => Elements(log, Len(log)) = Total(iter)

C6_Witness ==
    /\ adapter = "MapDeserializer" /\ req = Some("deserialize_seq") /\ pc = "done"
    /\ Total(iter) = 2 /\ Item(iter, 1) # Item(iter, 2)
    /\ Len(log) = 3 /\ AllOk(log)
    /\ Len(log[1].ret.val[1]) = 2 /\ Len(log[2].ret.val[1]) = 2
    /\ log[3].ret = Ok(None)
    /\ result = Some(Ok(log))

\* C10: the pair adapter's first next_element call yields the key, the second the
\* value, the third and every later call None; the key slot is emptied by the
\* first call and the value slot by the second, so each is moved out once at most
\* and the key before the value.
C10_PairKeyThenValue ==
    pc = "pair_visit"
    => LET kv == Item(iter, count)
       IN  /\ \A i \in 1..Len(plog) :
                CASE i = 1 ->
                       /\ plog[i].slot = "key"
                       /\ plog[i].ret # Ok(None)
                       /\ plog[i].ret.ok =>
                             /\ plog[i].ret.val[1].visit = "visit_str"
                             /\ plog[i].ret.val[1].arg = kv[1].v
                  [] i = 2 ->
                       /\ plog[i].slot = "value"
                       /\ plog[i].ret # Ok(None)
                       /\ plog[i].ret.ok =>
                             /\ plog[i].ret.val[1].visit = "visit_u32"
                             /\ plog[i].ret.val[1].arg = kv[2].v
                  [] OTHER ->
                       /\ plog[i].slot = "none"
                       /\ plog[i].ret = Ok(None)
           /\ pk = (IF Len(plog) >= 1 THEN None ELSE Some(kv[1]))
           /\ pv = (IF Len(plog) >= 2 THEN None ELSE Some(kv[2]))

C10_Witness ==
    /\ pc = "pair_visit" /\ Len(plog) = 3
    /\ plog[1].ret.ok /\ plog[1].slot = "key"
    /\ plog[2].ret.ok /\ plog[2].slot = "value"
    /\ plog[3].ret = Ok(None)
    /\ count = 2

\* C9: the j-th next_element call of a SeqDeserializer that obtains an item
\* decodes the j-th item of the iterator: items reach the visitor in iterator
\* order, none skipped or repeated.  Every such call takes one item from the
\* iterator and adds one to count, and a call that returns None adds nothing, so
\* during the visit count and the iterator's position both equal the number of
\* such calls (the position is one more once the raw iterator has answered None).
C9_SeqInOrder ==
    adapter = "SeqDeserializer"
    => /\ \A i \in 1..Len(log) :
            LET j == Fetched(log, i)
            IN  IF log[i].ret = Ok(None)
                THEN j = Total(iter)
                ELSE /\ j <= Total(iter)
                     /\ log[i].ret.ok =>
                           /\ log[i].ret.val[1].visit = "visit_u32"
                           /\ log[i].ret.val[1].arg = Item(iter, j).v
       /\ count = Fetched(log, Len(log))
       /\ pc = "visit_seq" =>
             \/ pos = count /\ (fused => pos = Len(iter))
             \/ pos = count + 1 /\ fused /\ iter[pos] = None

C9_Witness ==
    /\ adapter = "SeqDeserializer" /\ pc = "visit_seq"
    /\ Total(iter) = 3 /\ Item(iter, 1) # Item(iter, 2)
    /\ Len(log) = 4 /\ \A i \in 1..4 : log[i].ret.ok
    /\ log[3].ret # Ok(None) /\ log[4].ret = Ok(None)
    /\ count = 3 /\ pos = 3

\* ---- enum discriminants

\* C7: on the unit-only variant access that comes with a u32, &str, String or
\* Cow<str> discriminant, deserialize_unit returns Ok(()), and
\* deserialize_newtype_seed, deserialize_tuple and deserialize_struct return
\* invalid_type(Unexpected::UnitVariant, ..) expecting "newtype variant", "tuple
\* variant" and "struct variant", whatever seed, length, field list or visitor they
\* are given, and none of them runs the seed or the visitor.
C7_UnitOnly ==
    IsScalarAdapter
    => \A i \in 1..Len(log) :
          LET e == log[i]
          IN  /\ e.call = "deserialize_unit" =>
                    e.ret = Ok(Unit) /\ ~e.ran
              /\ e.call = "deserialize_newtype_seed" =>
                    e.ret = Err(InvalidType("UnitVariant", "newtype variant")) /\ ~e.ran
              /\ e.call = "deserialize_tuple" =>
                    e.ret = Err(InvalidType("UnitVariant", "tuple variant")) /\ ~e.ran
              /\ e.call = "deserialize_struct" =>
                    e.ret = Err(InvalidType("UnitVariant", "struct variant")) /\ ~e.ran

C7_Witness ==
    /\ adapter = "StrDeserializer" /\ scalar = Some(Str("a"))
    /\ pc = "visit_enum_rest" /\ Len(log) = 2
    /\ log[1].call = "variant_seed" /\ log[1].request = "deserialize_identifier"
    /\ log[1].ret.ok
    /\ log[2].call = "deserialize_newtype_seed"
    /\ ~log[2].ret.ok /\ log[2].ret.err.exp = "newtype variant"

\* The callback deserialize_any makes for a wrapped value of each type.
AnyCallback(x) ==
    CASE x.ty = "u32" -> "visit_u32"
      [] x.ty = "str" -> "visit_str"
      [] x.ty = "string" -> "visit_string"
      [] x.ty = "cow" -> IF x.owned THEN "visit_string" ELSE "visit_str"

\* `cb` is visit_enum called with the adapter under decode itself.
IsVisitEnumOfSelf(cb) ==
    /\ cb.visit = "visit_enum"
    /\ cb.arg.adapter = adapter
    /\ cb.arg.value = scalar[1]

LastPairCall(l) ==
    IF \E i \in 1..Len(l) : l[i].ret # Ok(None)
    THEN CHOOSE i \in 1..Len(l) :
            /\ l[i].ret # Ok(None)
            /\ \A h \in (i + 1)..Len(l) : l[h].ret = Ok(None)
    ELSE 0

\* The pair visitor has returned and left the key slot empty and the value slot
\* filled; its own result was not an error.
OneSlotTaken ==
    /\ adapter = "MapDeserializer" /\ SeqMode
    /\ pc \in {"visit_seq", "done"}
    /\ pk = None /\ pv # None
    /\ LastPairCall(log) > 0
    /\ log[LastPairCall(log)].ret # Err(VisitorError)

\* C11 as stated: a pair whose visitor returns without error with one slot taken
\* fails with an invalid-length error whose expected length is 2 and whose actual
\* length is 1.
C11_ExpectedTwoGotOne ==
    OneSlotTaken
    => log[LastPairCall(log)].ret = Err(InvalidLength(1, ElementsIn(2, "sequence")))

\* C11: a pair whose visitor returns without error with one slot taken (the key
\* taken, the value left) fails with invalid length 2, the number of elements the
\* pair holds, expected "1 element in sequence", the number the visitor took.
C11_ActualTwoExpectedOne ==
    OneSlotTaken
    => log[LastPairCall(log)].ret = Err(InvalidLength(2, ElementsIn(1, "sequence")))

C11_Witness ==
    /\ OneSlotTaken /\ pc = "visit_seq" /\ Len(log) = 2
    /\ log[1].ret.ok /\ log[1].ret # Ok(None)
    /\ ~log[2].ret.ok
    /\ log[2].ret.err.kind = "invalid_length"
    /\ log[2].ret.err.len = 2
    /\ log[2].ret.err.exp = "1 element in sequence"
    /\ pv = Some(Item(iter, 2)[2])

\* A step in which a seed handed a PairDeserializer is refused at once: the error
\* `e` comes back through next_element, no PairVisitor is made, no visitor is
\* called and neither half of the pair is handed out.
PairRefused(e) ==
    /\ pc = "seed" /\ pc' = "visit_seq"
    /\ log' = Append(log, Entry("next_element", Err(e)))
    /\ pk' = None /\ pv' = None /\ plog' = <<>>
    /\ visited' = visited
    /\ UNCHANGED <<iterVars, vret, result>>

\* A step in which the pair visitor is handed a PairVisitor holding both halves.
PairVisitStarts ==
    /\ pc = "seed" /\ pc' = "pair_visit"
    /\ pk' = Some(pd[1].first) /\ pv' = Some(pd[1].second)
    /\ plog' = <<>>
    /\ log' = log

\* C12: PairDeserializer::deserialize_seq_fixed_size with len = 2 is the same step
\* as deserialize_seq, the visitor starting on a PairVisitor that holds both
\* halves (and so succeeds once both are taken); with any other len it fails at
\* once with invalid length 2, expected len, and neither calls the visitor nor
\* takes the key or the value.
C12_PairFixedSize ==
    [][/\ PairDeserializeSeqFixedSize(2) <=> PairDeserializeSeq
       /\ PairDeserializeSeq => PairVisitStarts
       /\ \A len \in FixedLens \ {2} :
            PairDeserializeSeqFixedSize(len)
            => PairRefused(InvalidLength(2, ElementsIn(len, "sequence")))
       /\ (pc = "pair_visit" /\ pc' = "visit_seq" /\ pk = None /\ pv = None
             /\ Last(log').ret # Err(VisitorError))
            => Last(log').ret = Ok(Some(Obtained(plog)))]_vars

C12_Witness ==
    /\ adapter = "MapDeserializer" /\ SeqMode /\ pc = "visit_seq"
    /\ pk = None /\ pv = None /\ plog = <<>>
    /\ Len(log) = 2
    /\ log[1].ret.ok /\ log[1].ret # Ok(None) /\ Len(log[1].ret.val[1]) = 2
    /\ log[2].ret = Err(InvalidLength(2, "3 elements in sequence"))

\* A step in which the map's visitor is called with visit_seq(&mut self), nothing
\* having been pulled or decided before.
EntersVisitSeq ==
    /\ pc = "new" /\ pc' = "visit_seq"
    /\ visited' = <<Callback("visit_seq", "self")>>
    /\ UNCHANGED <<input, iterVars, value, log, pairVars, vret, result>>

\* The result of a decode in sequence mode as the end check alone decides it.
EndChecked ==
    LET k == Fetched(log, Len(log))
    IN  IF ~vret[1].ok THEN vret
        ELSE IF k < Total(iter)
             THEN Some(Err(InvalidLength(Total(iter), ElementsIn(k, "map"))))
             ELSE Some(Ok(vret[1].val))

\* C13: MapDeserializer::deserialize_seq_fixed_size(N, visitor) is
\* deserialize_seq(visitor) for every N: it starts with the same call of
\* visit_seq, the request is not looked at again, and the result is the one the
\* visitor and the end check give; N is compared with nothing.
C13_MapFixedSizeIsSeq ==
    /\ [][/\ \A len \in FixedLens : MapDeserializeSeqFixedSize(len) => EntersVisitSeq
          /\ MapDeserializeSeq => EntersVisitSeq
          /\ pc # "new" => req' = req]_vars
    /\ []((adapter = "MapDeserializer" /\ SeqMode /\ pc = "done")
            => vret # None /\ result = EndChecked)

C13_Witness ==
    /\ adapter = "MapDeserializer" /\ req = Some("deserialize_seq_fixed_size")
    /\ pc = "done" /\ Total(iter) = 1
    /\ Len(log) = 2 /\ log[1].ret.ok /\ Len(log[1].ret.val[1]) = 2
    /\ log[2].ret = Ok(None)
    /\ result = Some(Ok(log))

\* ---- adapters of one value

\* The visit callback of a primitive kind: visit_<kind>, and the 64-bit one for
\* the pointer-sized integers.
KindCallback(ty) ==
    CASE ty = "isize" -> "visit_i64"
      [] ty = "usize" -> "visit_u64"
      [] OTHER -> "visit_" \o ty

Visiting == pc \in {"visit", "done"}

\* C14: a primitive or char adapter answers every request, deserialize_any and
\* every hinted one, with one call of the visit callback of its own kind and the
\* wrapped value as it is; the one exception is deserialize_enum on the u32
\* adapter, which calls visit_enum.
C14_PrimitiveOneCallback ==
    (Visiting /\ adapter \in PrimitiveNames \cup {"U32Deserializer"})
    => /\ Len(visited) = 1
       /\ IF adapter = "U32Deserializer" /\ req = Some("deserialize_enum")
          THEN visited[1].visit = "visit_enum"
          ELSE /\ visited[1].visit = KindCallback(scalar[1].ty)
               /\ visited[1].arg = scalar[1].v

C14_Witness ==
    /\ adapter = "CharDeserializer" /\ scalar = Some(Primitive("char", "x"))
    /\ req = Some("deserialize_enum") /\ pc = "done"
    /\ visited = <<[visit |-> "visit_char", arg |-> "x"]>>
    /\ result = Some(Ok(visited))

\* C15: the unit adapter calls visit_none for deserialize_option and for nothing
\* else, visit_unit for deserialize_any and every other request; it makes that one
\* call and returns what the visitor returned.
C15_UnitCallbacks ==
    (Visiting /\ adapter = "UnitDeserializer")
    => /\ Len(visited) = 1
       /\ visited[1].visit = "visit_none" <=> req = Some("deserialize_option")
       /\ visited[1].visit = "visit_unit" <=> req # Some("deserialize_option")
       /\ pc = "done" => result = vret

C15_Witness ==
    /\ adapter = "UnitDeserializer" /\ req = Some("deserialize_option") /\ pc = "done"
    /\ Len(visited) = 1 /\ visited[1].visit = "visit_none"
    /\ result = Some(Err(VisitorError))

\* C16: for deserialize_any and every hinted request but deserialize_enum, the
\* &str adapter calls visit_str, the String adapter visit_string, and the Cow<str>
\* adapter visit_str when it holds borrowed text and visit_string when it holds
\* owned text; the text handed over is the wrapped text.
C16_StringByOwnership ==
    (Visiting /\ req # Some("deserialize_enum")
        /\ adapter \in {"StrDeserializer", "StringDeserializer", "CowStrDeserializer"})
    => /\ Len(visited) = 1
       /\ visited[1].visit =
            (CASE adapter = "StrDeserializer" -> "visit_str"
               [] adapter = "StringDeserializer" -> "visit_string"
               [] adapter = "CowStrDeserializer" ->
                     IF scalar[1].owned THEN "visit_string" ELSE "visit_str")
       /\ visited[1].arg = scalar[1].v

C16_Witness ==
    /\ adapter = "CowStrDeserializer" /\ scalar = Some(Cow("b", TRUE))
    /\ req = Some("deserialize_str") /\ pc = "done"
    /\ visited = <<[visit |-> "visit_string", arg |-> "b"]>>
    /\ result = Some(Ok(visited))

\* ---- the access bridges

\* C17: SeqAccessDeserializer and MapAccessDeserializer answer every request with
\* one call of visit_seq / visit_map on the wrapped access and return what the
\* visitor returned.  They count nothing and pull nothing (the wrapped access has
\* given exactly the answers the visitor asked for), and they check nothing at
\* the end: answers the visitor left in the wrapped access raise no length error.
C17_AccessBridge ==
    (IsAccessAdapter /\ pc # "new")
    => /\ Len(visited) = 1
       /\ visited[1].visit =
            (IF adapter = "SeqAccessDeserializer" THEN "visit_seq" ELSE "visit_map")
       /\ visited[1].arg =
            (IF adapter = "SeqAccessDeserializer" THEN "self.seq" ELSE "self.map")
       /\ count = 0
       /\ pos = Cardinality({i \in 1..Len(log) : i <= Len(iter)})
       /\ \A i \in 1..Len(log) :
            log[i].ret = Ok(IF i <= Len(iter) THEN iter[i] ELSE None)
       /\ pc = "done" => result = vret

C17_Witness ==
    /\ adapter = "MapAccessDeserializer" /\ req = Some("deserialize_seq") /\ pc = "done"
    /\ Len(iter) = 3 /\ \A i \in 1..3 : iter[i] # None
    /\ Len(log) = 1 /\ pos = 1
    /\ result = Some(Ok(log))

\* ---- errors

\* A step in which a seed fails on an item, key or value it was handed by the
\* sequence or map adapter.
SeedFails ==
    \/ SeqNextElement(FALSE) /\ count' # count
    \/ MapNextKey(FALSE) /\ count' # count
    \/ MapNextValue(FALSE) /\ value # None
    \/ \E kok, vok \in BOOLEAN : ~(kok /\ vok) /\ MapNextEntry(kok, vok) /\ count' # count

\* A step in which the visitor of the sequence or map adapter returns an error.
VisitorFails == SeqVisitReturn(FALSE) \/ MapVisitReturn(FALSE)

\* A step that is one access call of a visitor.
AccessCall == pc \in {"visit_seq", "visit_map", "pair_visit"} /\ pc' = pc

\* C18: a seed's error is what next_element, next_key, next_value and next_entry
\* return, also through the pair adapter; a visitor's error is what
\* deserialize_any, and deserialize_seq of the map and of the pair, return, with no
\* end check run: the iterator is left where it was and no length error takes the
\* place of the visitor's, whatever is left unconsumed.  No call pulls more than
\* one item, so nothing is tried a second time.
C18_ErrorsPropagate ==
    /\ [][/\ SeedFails => Last(log').ret = Err(SeedError)
          /\ (PairNextElement(FALSE) /\ (pk # None \/ pv # None))
                => Last(plog').ret = Err(SeedError)
          /\ PairVisitReturn(FALSE) => Last(log').ret = Err(VisitorError)
          /\ VisitorFails
                => /\ result' = Some(Err(VisitorError))
                   /\ UNCHANGED iterVars
          /\ AccessCall
                => /\ pos' \in {pos, pos + 1}
                   /\ Len(log') + Len(plog') = Len(log) + Len(plog) + 1]_vars
    /\ []((adapter \in {"SeqDeserializer", "MapDeserializer"} /\ pc = "done"
             /\ ~vret[1].ok)
            => result = vret)

C18_Witness ==
    /\ adapter = "SeqDeserializer" /\ pc = "done"
    /\ Total(iter) = 3 /\ Len(log) = 2
    /\ log[1].ret.ok /\ log[1].ret # Ok(None)
    /\ log[2].ret = Err(SeedError)
    /\ pos = 2
    /\ vret = Some(Err(VisitorError))
    /\ result = Some(Err(VisitorError))

\* C19: in a build with std or collections, an Error built by custom(msg) displays
\* the text of msg, and two such errors are equal exactly when their messages
\* are; in a build with neither, every Error displays "Serde deserialization
\* error".
C19_ErrorDisplayEq ==
    (adapter = "Error" /\ result # None)
    => LET r == result[1]
       IN  /\ r.call = "fmt" =>
                r.ret = (IF features \in {"std", "collections"}
                         THEN log[r.of].msg
                         ELSE "Serde deserialization error")
           /\ (r.call = "eq" /\ features \in {"std", "collections"}) =>
                (r.ret <=> log[r.a].msg = log[r.b].msg)

C19_Witness ==
    /\ adapter = "Error" /\ features = "collections"
    /\ Len(log) = 2 /\ log[1].msg = "missing field" /\ log[2].msg = ""
    /\ result # None /\ result[1].call = "fmt" /\ result[1].of = 2
    /\ result[1].ret = ""

\* ---- the count of the sequence adapter

\* The items the iterator has handed out, and those it still holds.
PulledItems == Cardinality({i \in 1..pos : iter[i] # None})
ItemsLeft == Cardinality({i \in (pos + 1)..Total(iter) : iter[i] # None})

\* C20: while a SeqDeserializer over N items is in use, count is the number of
\* items next_element calls have pulled from the iterator, decoded or not, and
\* count plus the items not yet pulled is N; a call that returns None leaves count
\* as it was.  So the end check, when it fails, reports N = count + remaining as
\* the actual length and count as the expected one.
C20_CountInvariant ==
    /\ []((adapter = "SeqDeserializer" /\ pc \in {"new", "visit_seq"})
            => /\ count = PulledItems
               /\ count = Cardinality({i \in 1..Len(log) : log[i].ret # Ok(None)})
               /\ count + ItemsLeft = Total(iter))
    /\ []((adapter = "SeqDeserializer" /\ pc = "done" /\ vret[1].ok /\ ~result[1].ok)
            => /\ result[1].err.kind = "invalid_length"
               /\ result[1].err.len = Total(iter)
               /\ result[1].err.exp = ElementsIn(count, "sequence")
               /\ count < Total(iter))
    /\ [][(adapter = "SeqDeserializer" /\ Len(log') = Len(log) + 1)
            => count' = (IF Last(log').ret = Ok(None) THEN count ELSE count + 1)]_vars

C20_Witness ==
    /\ adapter = "SeqDeserializer" /\ pc = "done"
    /\ Total(iter) = 3 /\ Len(iter) = 3
    /\ Len(log) = 2
    /\ log[1].ret = Err(SeedError)
    /\ log[2].ret.ok /\ log[2].ret # Ok(None)
    /\ count = 2
    /\ result = Some(Err(InvalidLength(3, "2 elements in sequence")))

\* ---- the value slot of the map adapter

\* The index of the last next_key among the first `i - 1` calls that pulled a pair,
\* 0 if none.
LastPullingKeyBefore(l, i) ==
    IF \E j \in 1..(i - 1) : l[j].call = "next_key" /\ l[j].ret # Ok(None)
    THEN CHOOSE j \in 1..(i - 1) :
            /\ l[j].call = "next_key" /\ l[j].ret # Ok(None)
            /\ \A h \in (j + 1)..(i - 1) : ~(l[h].call = "next_key" /\ l[h].ret # Ok(None))
    ELSE 0

\* Some next_key since construction or since the last next_value returned a key.
KeyReturned(l) ==
    \E j \in (LastValueBefore(l, Len(l) + 1) + 1)..Len(l) :
        /\ l[j].call = "next_key"
        /\ l[j].ret.ok
        /\ l[j].ret.val # None

\* C21 as stated: the value slot of a MapDeserializer is filled only between a
\* next_key that returned a key and the matching next_value; it is empty at
\* construction, after every next_value, after a next_key whose key decode failed,
\* and once the visitor has returned.
C21_SlotEmptyOutsideKeyValue ==
    adapter = "MapDeserializer"
    => /\ value # None => KeyReturned(log)
       /\ Len(log) = 0 => value = None
       /\ (Len(log) > 0 /\ Last(log).call = "next_value") => value = None
       /\ (Len(log) > 0 /\ Last(log).call = "next_key" /\ Last(log).ret = Err(SeedError))
            => value = None
       /\ pc = "done" => value = None

\* C21: the value slot of a MapDeserializer is empty at construction and after every
\* next_value, and under any calls of either view it is filled exactly when a
\* next_key has pulled a pair since construction or since the last next_value; it
\* then holds the value of the pair the last such next_key pulled.  A next_key
\* whose key decode failed leaves the slot filled, and so does the return of the
\* visitor: the slot is as the visitor left it when the end check runs.
C21_SlotFilledByPulledPair ==
    adapter = "MapDeserializer"
    => /\ Len(log) = 0 => value = None
       /\ (Len(log) > 0 /\ Last(log).call = "next_value") => value = None
       /\ value # None <=> PairPulled(log, Len(log) + 1)
       /\ value # None
            => LET j == LastPullingKeyBefore(log, Len(log) + 1)
               IN  value = Some(Item(iter, Fetched(log, j))[2])
       /\ (Len(log) > 0 /\ Last(log).call = "next_key" /\ Last(log).ret = Err(SeedError))
            => value # None

C21_Witness ==
    /\ adapter = "MapDeserializer" /\ pc = "done"
    /\ Total(iter) = 2 /\ Len(iter) = 2 /\ Item(iter, 1)[2] # Item(iter, 2)[2]
    /\ Len(log) = 3
    /\ log[1].call = "next_entry" /\ log[1].ret.ok
    /\ log[2].call = "next_key" /\ log[2].ret = Err(SeedError)
    /\ log[3].call = "next_key" /\ log[3].ret = Ok(None)
    /\ value = Some(Item(iter, 2)[2])
    /\ result[1].ok

\* ---- the fuse

\* Some pull among the calls of `l` has reported the end of the data.
SawEnd(l) == \E i \in 1..Len(l) : l[i].call \in Pulls /\ l[i].ret = Ok(None)

\* C22: once a pull on a SeqDeserializer or a MapDeserializer has reported the end
\* of the data, every later pull reports it too, the raw iterator is not asked
\* again and count stays as it is, even when the raw iterator would answer with an
\* item after its first None; an end check run after the visitor saw the end of
\* the data finds nothing remaining.
C22_EndOfDataSticks ==
    /\ []((adapter \in {"SeqDeserializer", "MapDeserializer"})
            => /\ \A i \in 1..Len(log) :
                    (log[i].call \in Pulls /\ log[i].ret = Ok(None))
                    => \A j \in (i + 1)..Len(log) :
                          log[j].call \in Pulls => log[j].ret = Ok(None)
               /\ SawEnd(log) => (fused /\ count = Total(iter))
               /\ (pc = "done" /\ vret[1].ok /\ SawEnd(log))
                    => result = Some(Ok(vret[1].val)))
    /\ [][(adapter \in {"SeqDeserializer", "MapDeserializer"} /\ (fused \/ SawEnd(log)))
            => (pos' = pos /\ count' = count /\ fused')]_vars

C22_Witness ==
    /\ adapter = "SeqDeserializer" /\ pc = "done"
    /\ Len(iter) = 3 /\ iter[1] # None /\ iter[2] = None /\ iter[3] # None
    /\ Len(log) = 3
    /\ log[1].ret.ok /\ log[1].ret # Ok(None)
    /\ log[2].ret = Ok(None)
    /\ log[3].ret = Ok(None)
    /\ pos = 2 /\ count = 1
    /\ result = Some(Ok(log))

\* ---- next_entry

\* The step is a call of next_entry.
NextEntryCalled ==
    /\ adapter = "MapDeserializer"
    /\ Len(log') = Len(log) + 1
    /\ Last(log').call = "next_entry"

\* C23: a next_entry call on a MapDeserializer that returns an entry pulls exactly
\* one pair, adds one to count and returns the key and the value of that pair;
\* every next_entry call, whatever it returns, leaves the value slot as it was.  A
\* value parked by an earlier next_key is neither used nor replaced, and a later
\* next_value returns the value of that earlier key's pair.
C23_NextEntryAtomic ==
    /\ [][NextEntryCalled
            => /\ value' = value
               /\ IF Last(log').ret = Ok(None)
                  THEN /\ count' = count
                       /\ count = Total(iter)
                  ELSE /\ count' = count + 1
                       /\ pos' = pos + 1
                       /\ Last(log').ret.ok
                            => Last(log').ret.val
                                 = Some(<<VisitStr(Item(iter, count')[1]),
                                          VisitU32(Item(iter, count')[2])>>)]_vars
    /\ []((adapter = "MapDeserializer")
            => \A i \in 1..Len(log) :
                  (log[i].call = "next_value" /\ ~IsPanic(log[i].ret))
                  => /\ LastPullingKeyBefore(log, i) > 0
                     /\ log[i].ret.ok
                          => log[i].ret.val
                               = VisitU32(Item(iter, Fetched(log, LastPullingKeyBefore(log, i)))[2]))

C23_Witness ==
    /\ adapter = "MapDeserializer" /\ pc = "visit_map"
    /\ Total(iter) = 2 /\ Item(iter, 1)[2] # Item(iter, 2)[2]
    /\ Len(log) = 3
    /\ log[1].call = "next_key" /\ log[1].ret.ok /\ log[1].ret # Ok(None)
    /\ log[2].call = "next_entry" /\ log[2].ret.ok /\ log[2].ret # Ok(None)
    /\ log[2].ret.val[1][2] = VisitU32(Item(iter, 2)[2])
    /\ log[3].call = "next_value"
    /\ log[3].ret = Ok(VisitU32(Item(iter, 1)[2]))
    /\ count = 2 /\ value = None

\* ---- keys without values

\* The visitor called nothing but next_key.
KeysOnly(l) == \A i \in 1..Len(l) : l[i].call = "next_key"

\* The step is a next_key that pulls a pair right after a next_key that pulled one.
SecondKeyInARow ==
    /\ adapter = "MapDeserializer"
    /\ Len(log) > 0 /\ Len(log') = Len(log) + 1
    /\ Last(log).call = "next_key" /\ Last(log).ret # Ok(None)
    /\ Last(log').call = "next_key" /\ Last(log').ret # Ok(None)

\* C24: the end check of a MapDeserializer looks at the iterator only, never at the
\* value slot: once the visitor has returned a value the decode succeeds exactly
\* when every pair was pulled, so a visitor that calls next_key for every pair and
\* never next_value gets success.  A next_key right after another one replaces the
\* parked value of the first pair by that of the second, without error or abort,
\* and count counts both pairs.
C24_EndIgnoresSlot ==
    /\ []((adapter = "MapDeserializer" /\ pc = "done" /\ vret[1].ok)
            => /\ result[1].ok <=> count = Total(iter)
               /\ (KeysOnly(log) /\ Fetched(log, Len(log)) = Total(iter))
                    => result = Some(Ok(vret[1].val)))
    /\ [][SecondKeyInARow
            => /\ value = Some(Item(iter, count)[2])
               /\ value' = Some(Item(iter, count')[2])
               /\ count' = count + 1
               /\ pc' = "visit_map"
               /\ ~IsPanic(Last(log').ret)
               /\ Last(log').ret \in {Ok(Some(VisitStr(Item(iter, count')[1]))),
                                      Err(SeedError)}]_vars

C24_Witness ==
    /\ adapter = "MapDeserializer" /\ req = Some("deserialize_any") /\ pc = "done"
    /\ Total(iter) = 2 /\ Item(iter, 1)[2] # Item(iter, 2)[2]
    /\ Len(log) = 2
    /\ \A i \in 1..2 : log[i].call = "next_key" /\ log[i].ret.ok /\ log[i].ret # Ok(None)
    /\ value = Some(Item(iter, 2)[2])
    /\ count = 2
    /\ result = Some(Ok(log))

\* ---- the slots of the pair visitor

\* The slots of the pair visitor still filled, and the slots next_element calls
\* have emptied.
Untaken == (IF pk # None THEN 1 ELSE 0) + (IF pv # None THEN 1 ELSE 0)
Taken == Cardinality({i \in 1..Len(plog) : plog[i].slot # "none"})

\* The step is the pair visitor returning without an error of its own.
PairVisitorReturnsOk ==
    /\ pc = "pair_visit" /\ pc' = "visit_seq"
    /\ Last(log').ret # Err(VisitorError)

\* C25: in every reachable state of the pair's access object a filled key slot
\* comes with a filled value slot, and size_hint is the number of slots not yet
\* taken.  So the value slot is empty exactly when both slots were taken, the pair
\* decode succeeds exactly then, and a visitor that takes nothing fails with
\* invalid length 2, expected "0 elements in sequence".
C25_PairSlots ==
    /\ [](/\ pk # None => pv # None
          /\ PairSizeHint(pk, pv) = Untaken
          /\ pc = "pair_visit"
               => /\ Taken + Untaken = 2
                  /\ pv = None <=> Taken = 2)
    /\ [][PairVisitorReturnsOk
            => /\ Last(log').ret.ok <=> Taken = 2
               /\ Taken = 0
                    => Last(log').ret = Err(InvalidLength(2, "0 elements in sequence"))]_vars

C25_Witness ==
    /\ adapter = "MapDeserializer" /\ pc = "visit_seq"
    /\ pk # None /\ pv # None
    /\ Len(log) = 1
    /\ log[1].ret = Err(InvalidLength(2, "0 elements in sequence"))

\* ---- termination

\* C26: deserialize_any of a SeqDeserializer or a MapDeserializer over a finite
\* iterator, with a visitor that makes finitely many access calls, comes to an end
\* (it returns, or next_value aborts it).  No step pulls an item twice: the
\* iterator only moves forward and count never exceeds the items handed out.  The
\* drain of the end check stops at the first None, having pulled each remaining
\* item once.
C26_Terminates ==
    /\ <>(pc \in {"done", "panic"})
    /\ [][pos' >= pos /\ (pc' # "done" => pos' <= pos + 1)]_vars
    /\ [](/\ count = PulledItems \/ (pc = "done" /\ vret[1].ok)
          /\ PulledItems <= Total(iter)
          /\ pos <= Total(iter) + 1
          /\ (pc = "done" /\ vret[1].ok)
               => /\ PulledItems = Total(iter)
                  /\ fused
                  /\ pos = (IF Total(iter) < Len(iter) THEN Total(iter) + 1 ELSE Total(iter))
                  /\ ~result[1].ok => result[1].err.len = Total(iter))

C26_Witness ==
    /\ adapter = "MapDeserializer" /\ pc = "done" /\ vret[1].ok
    /\ Total(iter) = 3
    /\ Len(log) = 1 /\ log[1].call = "next_key" /\ log[1].ret # Ok(None)
    /\ count = 1 /\ pos = 3 /\ fused
    /\ result = Some(Err(InvalidLength(3, "1 element in map")))

====
